---- MODULE Spec2Model ----
(***************************************************************************)
(* Model of scrab.py: the RSS ingestion pipeline.                          *)
(*                                                                         *)
(* Text is a sequence of code points, so that clean_text is computed the   *)
(* way the two regular expressions compute it.  Three specifications:      *)
(*   SpecText  - clean_text applied once and twice to a bounded input      *)
(*   SpecParse - parse_rss_feed applied to one descriptor and one feed     *)
(*   Spec      - main: the loop over RSS_FEEDS, the two sinks and the      *)
(*               summary, run repeatedly against the same remote feeds     *)
(***************************************************************************)
EXTENDS Integers, Sequences, FiniteSets, TLC

VARIABLES
    text_in, text_out, text_twice, tstage,        \* SpecText
    feed_info, response, news_items, plog, pstage,\* SpecParse
    pads_year,                                    \* platform: does strftime('%Y') zero-pad
    web, pc, idx, all_news, log, csv_file, db_news, total_csv, total_db,
    summary, runs                                 \* Spec

textVars  == <<text_in, text_out, text_twice, tstage>>
parseVars == <<feed_info, response, news_items, plog, pstage>>
mainVars  == <<web, pc, idx, all_news, log, csv_file, db_news, total_csv,
               total_db, summary, runs>>
vars == <<textVars, parseVars, pads_year, mainVars>>

----------------------------------------------------------------------------
(* Bounds *)
MaxLen == 4          \* longest text given to clean_text in SpecText
MaxEntries == 2      \* most entries in one feed
NumFeeds == 2        \* descriptors of RSS_FEEDS that are modelled
MaxRuns == 2         \* runs of main against the same feeds

----------------------------------------------------------------------------
(* Text: str.strip(), re.sub(r'\s+', ' ', .), re.sub(r'[^\x00-\x7F]+', ' ', .) *)

SP == 32

\* Code points for which Python's str.isspace() and the regex class \s hold.
IsSpace(c) ==
    c \in ({9, 10, 11, 12, 13, 28, 29, 30, 31, 32, 133, 160, 5760,
            8232, 8233, 8239, 8287, 12288} \cup (8192..8202))

IsAscii(c) == c \in 0..127

RECURSIVE LStrip(_)
LStrip(s) ==
    IF s = <<>> THEN <<>>
    ELSE IF IsSpace(Head(s)) THEN LStrip(Tail(s)) ELSE s

RECURSIVE RStrip(_)
RStrip(s) ==
    IF s = <<>> THEN <<>>
    ELSE IF IsSpace(s[Len(s)]) THEN RStrip(SubSeq(s, 1, Len(s) - 1)) ELSE s

Strip(s) == RStrip(LStrip(s))

\* re.sub(<class>+, ' ', s): every maximal run of characters of the class
\* becomes one space.  inRun says whether the previous character was in it.
\* The two character classes of clean_text: \s and [^\x00-\x7F].
InClass(class, c) ==
    IF class = "space" THEN IsSpace(c) ELSE ~IsAscii(c)

RECURSIVE SubRuns(_, _, _)
SubRuns(class, s, inRun) ==
    IF s = <<>> THEN <<>>
    ELSE IF InClass(class, Head(s))
         THEN (IF inRun THEN <<>> ELSE <<SP>>) \o SubRuns(class, Tail(s), TRUE)
         ELSE <<Head(s)>> \o SubRuns(class, Tail(s), FALSE)

clean_text(text) ==
    IF text = <<>> THEN <<>>
    ELSE SubRuns("nonascii", SubRuns("space", Strip(text), FALSE), FALSE)

----------------------------------------------------------------------------
(* SpecText: clean_text on every text of at most MaxLen characters drawn   *)
(* from: space, tab, a letter, a control character, a non-ASCII letter     *)
(* and the non-ASCII whitespace U+00A0.                                    *)

Chars == {32, 9, 97, 1, 233, 160}

RECURSIVE SeqsUpTo(_, _)
SeqsUpTo(S, n) ==
    IF n = 0 THEN {<<>>}
    ELSE LET shorter == SeqsUpTo(S, n - 1)
         IN  shorter \cup {<<x>> \o s : x \in S, s \in {t \in shorter : Len(t) = n - 1}}

Texts == SeqsUpTo(Chars, MaxLen)

----------------------------------------------------------------------------
(* Feed values.  A field of an entry is absent, a string, or a value that  *)
(* is not a string.  A date string of the shape "%a, %d %b %Y %H:%M:%S %z" *)
(* is kept as its tokens; any other string is kept as its text.            *)

Absent == [ty |-> "absent"]
Str(s) == [ty |-> "str", v |-> s]
NonStr == [ty |-> "int"]                  \* a truthy non-string, e.g. 5
DateStr(a, d, b, Y, H, M, S, z) ==
    [ty |-> "rfc822", a |-> a, d |-> d, b |-> b, Y |-> Y, H |-> H, M |-> M,
     S |-> S, z |-> z]

\* 'No Title', 'No Description', 'Unknown', 'No URL', 'unknown', 'en'
NoTitle       == <<78, 111, 32, 84, 105, 116, 108, 101>>
NoDescription == <<78, 111, 32, 68, 101, 115, 99, 114, 105, 112, 116, 105, 111, 110>>
Unknown       == <<85, 110, 107, 110, 111, 119, 110>>
NoURL         == <<78, 111, 32, 85, 82, 76>>
unknown_lang  == <<117, 110, 107, 110, 111, 119, 110>>
lang_en       == <<101, 110>>

\* dict.get(key, default)
Get(field, default) == IF field = Absent THEN default ELSE field

----------------------------------------------------------------------------
(* datetime.strptime(raw, '%a, %d %b %Y %H:%M:%S %z')                      *)

Weekdays == {"Mon", "Tue", "Wed", "Thu", "Fri", "Sat", "Sun"}
Months == <<"Jan", "Feb", "Mar", "Apr", "May", "Jun", "Jul", "Aug", "Sep",
            "Oct", "Nov", "Dec">>
Offsets == {"+0000", "-0530", "+00:00", "Z"}    \* tokens %z accepts

MonthNum(b) == CHOOSE m \in 1..12 : Months[m] = b

IsLeap(y) == (y % 4 = 0 /\ y % 100 # 0) \/ y % 400 = 0

DaysIn(m, y) ==
    IF m = 2 THEN (IF IsLeap(y) THEN 29 ELSE 28)
    ELSE IF m \in {4, 6, 9, 11} THEN 30 ELSE 31

\* What strptime does with raw: "TypeError" for a non-string, "ValueError"
\* for a string that does not match or names no real date, else "ok".
StrptimeOutcome(raw) ==
    IF raw.ty \notin {"str", "rfc822"} THEN "TypeError"
    ELSE IF raw.ty = "str" THEN "ValueError"
    ELSE IF /\ raw.a \in Weekdays
            /\ \E m \in 1..12 : Months[m] = raw.b
            /\ raw.Y \in 1..9999
            /\ raw.d \in 1..DaysIn(MonthNum(raw.b), raw.Y)
            /\ raw.H \in 0..23 /\ raw.M \in 0..59 /\ raw.S \in 0..59
            /\ raw.z \in Offsets
         THEN "ok" ELSE "ValueError"

Strptime(raw) ==
    [year |-> raw.Y, month |-> MonthNum(raw.b), day |-> raw.d,
     hour |-> raw.H, minute |-> raw.M, second |-> raw.S]

(* datetime.strftime('%Y-%m-%d %H:%M:%S') *)
Digit(n) == 48 + n
Pad2(n) == <<Digit(n \div 10), Digit(n % 10)>>
Pad4(n) == <<Digit(n \div 1000), Digit((n \div 100) % 10),
             Digit((n \div 10) % 10), Digit(n % 10)>>

RECURSIVE Decimal(_)
Decimal(n) == IF n < 10 THEN <<Digit(n)>> ELSE Decimal(n \div 10) \o <<Digit(n % 10)>>

\* %Y is delegated to the C library: the GNU one writes the year without
\* leading zeros (year 999 gives "999"), others pad to four digits.
Strftime(dt, pads) ==
    (IF pads THEN Pad4(dt.year) ELSE Decimal(dt.year)) \o <<45>> \o
    Pad2(dt.month) \o <<45>> \o Pad2(dt.day) \o <<SP>> \o
    Pad2(dt.hour) \o <<58>> \o Pad2(dt.minute) \o <<58>> \o Pad2(dt.second)

\* Lines 85-89: the raw value and its normalisation.
RawPubDate(entry) == Get(entry.published, Get(entry.updated, Str(Unknown)))

NormalizeDate(raw, pads) ==
    IF raw = Str(Unknown) THEN Unknown
    ELSE IF StrptimeOutcome(raw) = "ok" THEN Strftime(Strptime(raw), pads)
    ELSE Unknown

----------------------------------------------------------------------------
(* detect_language: langdetect's detect() raises when the text has no      *)
(* letter to take features from, and the bare except turns that into       *)
(* 'unknown'.  The text is ASCII by then; the code returned is 'en'.       *)

IsLetter(c) == c \in (65..90) \cup (97..122)

detect_language(text) ==
    IF \E i \in 1..Len(text) : IsLetter(text[i]) THEN lang_en ELSE unknown_lang

----------------------------------------------------------------------------
(* parse_rss_feed *)

\* clean_text(x) raises (AttributeError: no .strip()) for a truthy value
\* that is not a string.
CleanRaises(field) == field.ty \notin {"str", "absent"}

EntryRaises(entry) ==
    \/ CleanRaises(Get(entry.title, Str(NoTitle)))
    \/ CleanRaises(Get(entry.summary, Get(entry.description, Str(NoDescription))))

\* Lines 83-101: the record built from one entry that does not raise.
NewsItem(info, entry, pads) ==
    LET title == clean_text(Get(entry.title, Str(NoTitle)).v)
        description ==
            clean_text(Get(entry.summary,
                           Get(entry.description, Str(NoDescription))).v)
        link == Get(entry.link, Str(NoURL))
    IN  [country |-> info.country, source |-> info.source, title |-> title,
         pub_date |-> NormalizeDate(RawPubDate(entry), pads),
         description |-> description,
         url |-> link.v,
         language |-> detect_language(title \o <<SP>> \o description)]

\* Lines 82-101: the loop; it stops at the first entry that raises and
\* leaves in news_items what was appended before.
RECURSIVE EntryLoop(_, _, _)
EntryLoop(info, entries, pads) ==
    IF entries = <<>> THEN [items |-> <<>>, raised |-> FALSE]
    ELSE IF EntryRaises(Head(entries)) THEN [items |-> <<>>, raised |-> TRUE]
    ELSE LET rest == EntryLoop(info, Tail(entries), pads)
         IN  [items |-> <<NewsItem(info, Head(entries), pads)>> \o rest.items,
              raised |-> rest.raised]

ErrorLine(kind, info) ==
    [level |-> "ERROR", kind |-> kind, source |-> info.source,
     country |-> info.country, n |-> 0]
InfoLine(kind, info, n) ==
    [level |-> "INFO", kind |-> kind, source |-> info.source,
     country |-> info.country, n |-> n]

\* Lines 73-108.  resp is what feedparser.parse did: raised, or returned a
\* feed with its bozo flag and entries.  The result is the returned list
\* and the lines logged.
parse_rss_feed(info, resp, pads) ==
    IF resp.raises = "URLError"
    THEN [items |-> <<>>, lines |-> <<ErrorLine("Network error", info)>>]
    ELSE IF resp.raises # "none"
    THEN [items |-> <<>>, lines |-> <<ErrorLine("Unexpected error", info)>>]
    ELSE IF resp.bozo
    THEN [items |-> <<>>, lines |-> <<ErrorLine("Error parsing feed", info)>>]
    ELSE LET r == EntryLoop(info, resp.entries, pads)
         IN  IF r.raised
             THEN [items |-> r.items,
                   lines |-> <<ErrorLine("Unexpected error", info)>>]
             ELSE [items |-> r.items,
                   lines |-> <<InfoLine("Successfully parsed", info, Len(r.items))>>]


----------------------------------------------------------------------------
(* What feedparser.parse(url) can do, by the condition of the endpoint.    *)
(* A transport failure is reported by feedparser through bozo and          *)
(* bozo_exception (a URLError); an exception that escapes parse instead is *)
(* what the handlers at lines 104-107 receive.                             *)

Returned(cond, bozo, exc, entries) ==
    [cond |-> cond, raises |-> "none", bozo |-> bozo, bozo_exception |-> exc,
     entries |-> entries]
Raised(cond, exc) ==
    [cond |-> cond, raises |-> exc, bozo |-> FALSE, bozo_exception |-> "none",
     entries |-> <<>>]

Responses(Contents) ==
    {Returned("ok", FALSE, "none", es) : es \in Contents}
    \cup {Returned("malformed", TRUE, "SAXParseException", <<>>)}
    \cup {Returned("unreachable", TRUE, "URLError", <<>>), Raised("unreachable", "URLError")}
    \cup {Raised("broken", "Exception")}

T(c) == Str(<<c>>)
D_ok     == DateStr("Mon", 2, "Jan", 2006, 15, 4, 5, "+0000")
D_upd    == DateStr("Sun", 29, "Feb", 2004, 23, 59, 59, "-0530")
D_gmt    == DateStr("Mon", 2, "Jan", 2006, 15, 4, 5, "GMT")
D_nooff  == DateStr("Mon", 2, "Jan", 2006, 15, 4, 5, "")
D_feb31  == DateStr("Mon", 31, "Feb", 2006, 15, 4, 5, "+0000")
D_old    == DateStr("Mon", 2, "Jan", 999, 15, 4, 5, "+0000")
\* "2006-01-02"
D_iso    == Str(<<50, 48, 48, 54, 45, 48, 49, 45, 48, 50>>)

Entry(t, s, d, p, u, l) ==
    [title |-> t, summary |-> s, description |-> d, published |-> p,
     updated |-> u, link |-> l]

\* Entries given to parse_rss_feed in SpecParse: a complete one, and ones
\* with a field missing, malformed or of the wrong type.
ParseEntries ==
    { Entry(T(97), T(98), Absent, D_ok, Absent, T(117)),
      Entry(Absent, T(98), Absent, D_ok, Absent, T(117)),
      Entry(T(97), T(98), Absent, D_ok, Absent, Absent),
      Entry(T(97), Absent, T(99), Absent, D_upd, T(117)),
      Entry(T(97), Absent, Absent, Absent, Absent, T(117)),
      Entry(T(97), T(98), Absent, D_gmt, D_ok, T(117)),
      Entry(T(97), T(98), Absent, D_nooff, Absent, T(117)),
      Entry(T(97), T(98), Absent, NonStr, Absent, T(117)),
      Entry(T(97), T(98), Absent, Str(Unknown), D_ok, T(117)),
      Entry(T(97), T(98), Absent, D_iso, Absent, T(117)),
      Entry(T(97), T(98), Absent, D_feb31, Absent, T(117)),
      Entry(T(97), T(98), Absent, D_old, Absent, T(117)),
      Entry(Str(<<97, 32, 233>>), T(1), Absent, D_ok, Absent, T(117)),
      Entry(NonStr, T(98), Absent, D_ok, Absent, T(117)) }

\* Entries of the feeds main reads in Spec: M_x and M_y share (title, url)
\* and differ in the description, M_t and M_u differ from M_x in the title
\* or in the url only, M_bad raises.
M_x   == Entry(T(97), T(120), Absent, D_ok, Absent, T(117))
M_y   == Entry(T(97), T(121), Absent, D_ok, Absent, T(117))
M_t   == Entry(T(98), T(120), Absent, D_ok, Absent, T(117))
M_u   == Entry(T(97), T(120), Absent, D_ok, Absent, T(118))
M_bad == Entry(NonStr, T(120), Absent, D_ok, Absent, T(117))

\* The documents a feed of Spec may hold.
MainContents ==
    { <<>>, <<M_x>>, <<M_y>>, <<M_x, M_y>>, <<M_x, M_t>>, <<M_u, M_x>>,
      <<M_x, M_bad>>, <<M_bad, M_x>>, <<M_y, M_t, M_x>> }

\* Lines 30-56, the first descriptors (the urls play no part).
RSS_FEEDS ==
    << [country |-> "United Kingdom", source |-> "BBC News"],
       [country |-> "United States", source |-> "CNN"],
       [country |-> "Qatar", source |-> "Al Jazeera"],
       [country |-> "Japan", source |-> "NHK"] >>

Feeds == 1..NumFeeds

----------------------------------------------------------------------------
(* The sinks and the summary *)

Key(r) == <<r.title, r.url>>

\* DataFrame.drop_duplicates(subset=['title', 'url'], keep='first')
RECURSIVE DropFrom(_, _)
DropFrom(data, seen) ==
    IF data = <<>> THEN <<>>
    ELSE IF Key(Head(data)) \in seen THEN DropFrom(Tail(data), seen)
    ELSE <<Head(data)>> \o DropFrom(Tail(data), seen \cup {Key(Head(data))})

\* keep='last' in place of keep='first'
RECURSIVE drop_duplicates_last(_)
drop_duplicates_last(data) ==
    IF data = <<>> THEN <<>>
    ELSE IF \E j \in 2..Len(data) : Key(data[j]) = Key(Head(data))
         THEN drop_duplicates_last(Tail(data))
         ELSE <<Head(data)>> \o drop_duplicates_last(Tail(data))

drop_duplicates(data) == DropFrom(data, {})

\* to_csv(filename): the file is rewritten
to_csv(file, df) == df

\* if_exists='replace' in place of if_exists='append'
to_sql_replace(table, df) == df

\* to_sql('news', conn, if_exists='append')
to_sql(table, df) == table \o df

HistoricalData == "Varies by feed (up to 1 year where available)"

\* groupby sorts its groups by (country, source); the descriptors of
\* RSS_FEEDS in that order.
GroupOrder == <<4, 3, 1, 2>>

RECURSIVE CountOf(_, _)
CountOf(data, d) ==
    IF data = <<>> THEN 0
    ELSE (IF Head(data).country = d.country /\ Head(data).source = d.source
          THEN 1 ELSE 0) + CountOf(Tail(data), d)

RECURSIVE GroupRows(_, _)
GroupRows(data, order) ==
    IF order = <<>> THEN <<>>
    ELSE LET d == RSS_FEEDS[Head(order)]
             n == CountOf(data, d)
         IN  (IF n = 0 THEN <<>>
              ELSE <<[country |-> d.country, source |-> d.source,
                      total_articles |-> n, historical_data |-> HistoricalData]>>)
             \o GroupRows(data, Tail(order))

\* the summary made of the deduplicated frame in place of the full list
generate_summary_dedup(data) == GroupRows(drop_duplicates(data), GroupOrder)

\* Lines 129-134, for a non-empty list.
generate_summary(data) == GroupRows(data, GroupOrder)


----------------------------------------------------------------------------
(* SpecText *)

IdleParse ==
    /\ feed_info = RSS_FEEDS[1] /\ response = Raised("broken", "Exception")
    /\ news_items = <<>> /\ plog = <<>> /\ pstage = "idle"

IdleMain ==
    /\ web = <<>> /\ pc = "idle" /\ idx = 1 /\ all_news = <<>> /\ log = <<>>
    /\ csv_file = <<>> /\ db_news = <<>> /\ total_csv = 0 /\ total_db = 0
    /\ summary = <<>> /\ runs = 0

IdleText ==
    /\ text_in = <<>> /\ text_out = <<>> /\ text_twice = <<>> /\ tstage = "idle"

InitText ==
    /\ text_in \in Texts
    /\ text_out = <<>> /\ text_twice = <<>> /\ tstage = "input"
    /\ pads_year = TRUE
    /\ IdleParse /\ IdleMain

\* text_out = clean_text(text_in)
CleanOnce ==
    /\ tstage = "input"
    /\ text_out' = clean_text(text_in)
    /\ tstage' = "once"
    /\ UNCHANGED <<text_in, text_twice, parseVars, pads_year, mainVars>>

\* text_twice = clean_text(clean_text(text_in))
CleanTwice ==
    /\ tstage = "once"
    /\ text_twice' = clean_text(text_out)
    /\ tstage' = "twice"
    /\ UNCHANGED <<text_in, text_out, parseVars, pads_year, mainVars>>

NextText == CleanOnce \/ CleanTwice

SpecText == InitText /\ [][NextText]_vars

----------------------------------------------------------------------------
(* SpecParse *)

InitParse ==
    /\ feed_info \in {RSS_FEEDS[i] : i \in Feeds}
    /\ response \in Responses(SeqsUpTo(ParseEntries, MaxEntries))
    /\ pads_year \in BOOLEAN
    /\ news_items = <<>> /\ plog = <<>> /\ pstage = "call"
    /\ IdleText /\ IdleMain

\* news_items = parse_rss_feed(feed_info)
ParseCall ==
    /\ pstage = "call"
    /\ LET r == parse_rss_feed(feed_info, response, pads_year)
       IN  /\ news_items' = r.items
           /\ plog' = plog \o r.lines
    /\ pstage' = "returned"
    /\ UNCHANGED <<feed_info, response, textVars, pads_year, mainVars>>

NextParse == ParseCall

SpecParse == InitParse /\ [][NextParse]_vars

----------------------------------------------------------------------------
(* Spec: main, run up to MaxRuns times against the same remote feeds.  The *)
(* log file, the csv file and the news table outlive a run.                *)

Init ==
    /\ web \in [Feeds -> Responses(MainContents)]
    /\ pads_year \in BOOLEAN
    /\ pc = "loop" /\ idx = 1 /\ all_news = <<>> /\ log = <<>>
    /\ csv_file = <<>> /\ db_news = <<>> /\ total_csv = 0 /\ total_db = 0
    /\ summary = <<>> /\ runs = 1
    /\ IdleText /\ IdleParse

\* Lines 139-143: one iteration of the loop over RSS_FEEDS.
ProcessFeed ==
    /\ pc = "loop"
    /\ LET feed == RSS_FEEDS[idx]
           r == parse_rss_feed(feed, web[idx], pads_year)
       IN  /\ log' = log \o <<InfoLine("Processing feed", feed, 0)>> \o r.lines
           /\ all_news' = all_news \o r.items
    /\ idx' = idx + 1
    /\ pc' = IF idx = NumFeeds THEN "save_csv" ELSE "loop"
    /\ UNCHANGED <<web, csv_file, db_news, total_csv, total_db, summary, runs,
                   textVars, parseVars, pads_year>>

FileLine(kind, n) ==
    [level |-> "INFO", kind |-> kind, source |-> "", country |-> "", n |-> n]

\* Lines 110-116, called at line 146.  drop_duplicates returns at once on
\* an empty frame, so an empty list is written as an empty file.
save_to_csv ==
    /\ pc = "save_csv"
    /\ LET df == drop_duplicates(all_news)
       IN  /\ csv_file' = to_csv(csv_file, df)
           /\ total_csv' = Len(df)
           /\ log' = log \o <<FileLine("Saved to csv", Len(df))>>
    /\ pc' = "save_sqlite"
    /\ UNCHANGED <<web, idx, all_news, db_news, total_db, summary, runs,
                   textVars, parseVars, pads_year>>

\* Lines 118-127, called at line 147.  An empty list adds no row to the
\* table, whether or not to_sql accepts a frame without columns; the run
\* then ends at line 150 (summarize_raises).
save_to_sqlite ==
    /\ pc = "save_sqlite"
    /\ LET df == drop_duplicates(all_news)
       IN  /\ db_news' = to_sql(db_news, df)
           /\ total_db' = Len(df)
           /\ log' = log \o <<FileLine("Saved to sqlite", Len(df))>>
    /\ pc' = "summary"
    /\ UNCHANGED <<web, idx, all_news, csv_file, total_csv, summary, runs,
                   textVars, parseVars, pads_year>>

\* Lines 150-161: generate_summary, the summary file and the report.
summarize ==
    /\ pc = "summary"
    /\ all_news # <<>>
    /\ summary' = generate_summary(all_news)
    /\ log' = log \o <<FileLine("Summary", Len(summary')),
                       FileLine("Summary saved", 0)>>
    /\ pc' = "done"
    /\ UNCHANGED <<web, idx, all_news, csv_file, db_news, total_csv, total_db,
                   runs, textVars, parseVars, pads_year>>

\* Line 132 on an empty list: the frame has no 'country' column, groupby
\* raises KeyError and main ends with it.
summarize_raises ==
    /\ pc = "summary"
    /\ all_news = <<>>
    /\ pc' = "crashed"
    /\ UNCHANGED <<web, idx, all_news, log, csv_file, db_news, total_csv,
                   total_db, summary, runs, textVars, parseVars, pads_year>>

\* The next run of the program: line 138.
StartRun ==
    /\ pc \in {"done", "crashed"}
    /\ runs < MaxRuns
    /\ runs' = runs + 1
    /\ pc' = "loop" /\ idx' = 1 /\ all_news' = <<>>
    /\ total_csv' = 0 /\ total_db' = 0 /\ summary' = <<>>
    /\ UNCHANGED <<web, log, csv_file, db_news, textVars, parseVars, pads_year>>

Next ==
    \/ ProcessFeed
    \/ save_to_csv
    \/ save_to_sqlite
    \/ summarize
    \/ summarize_raises
    \/ StartRun

Spec == Init /\ [][Next]_vars


----------------------------------------------------------------------------
(* Properties *)

\* C1: the result of clean_text has no two consecutive spaces, no tab or
\* newline, no leading or trailing whitespace, and only characters of the
\* 7-bit printable range (no non-ASCII, no control character).
C1_CleanOutput ==
    tstage \in {"once", "twice"} =>
        /\ \A i \in 1..(Len(text_out) - 1) :
               ~(text_out[i] = SP /\ text_out[i + 1] = SP)
        /\ \A i \in 1..Len(text_out) : text_out[i] \notin {9, 10}
        /\ text_out # <<>> =>
               ~IsSpace(text_out[1]) /\ ~IsSpace(text_out[Len(text_out)])
        /\ \A i \in 1..Len(text_out) : text_out[i] \in 32..126

\* C2: clean_text is idempotent: clean_text(clean_text(x)) = clean_text(x).
C2_Idempotent ==
    tstage = "twice" => text_twice = text_out

ErrorLines(lines) == SelectSeq(lines, LAMBDA l : l.level = "ERROR")

Failed(resp) ==
    \/ resp.raises # "none"
    \/ resp.bozo
    \/ \E i \in 1..Len(resp.entries) : EntryRaises(resp.entries[i])

\* C3: on every failure (malformed feed, transport error, or an exception
\* anywhere, also at the k-th entry) parse_rss_feed returns the empty list
\* and logs exactly one error line naming the descriptor's source and
\* country.
C3_AllOrNothing ==
    (pstage = "returned" /\ Failed(response)) =>
        /\ news_items = <<>>
        /\ Len(ErrorLines(plog)) = 1
        /\ ErrorLines(plog)[1].source = feed_info.source
        /\ ErrorLines(plog)[1].country = feed_info.country

HasLine(lines, kind, info) ==
    \E i \in 1..Len(lines) :
        /\ lines[i].kind = kind
        /\ lines[i].source = info.source /\ lines[i].country = info.country

\* C9: an unreachable endpoint is logged with the network-error line and
\* never with the parse-error line; a malformed document is logged with the
\* parse-error line and never with the network-error line.
C9_DistinctClassification ==
    pstage = "returned" =>
        /\ response.cond = "unreachable" =>
               /\ HasLine(plog, "Network error", feed_info)
               /\ ~HasLine(plog, "Error parsing feed", feed_info)
        /\ response.cond = "malformed" =>
               /\ HasLine(plog, "Error parsing feed", feed_info)
               /\ ~HasLine(plog, "Network error", feed_info)

IsDigit(c) == c \in 48..57

\* YYYY-MM-DD HH:MM:SS
IsCanonical(s) ==
    /\ Len(s) = 19
    /\ s[5] = 45 /\ s[8] = 45 /\ s[11] = SP /\ s[14] = 58 /\ s[17] = 58
    /\ \A i \in (1..19) \ {5, 8, 11, 14, 17} : IsDigit(s[i])

\* The entries processed before the first one that raises.
Processed(entries) ==
    {i \in 1..Len(entries) : \A j \in 1..i : ~EntryRaises(entries[j])}

\* C10: every record emitted has pub_date canonical or "Unknown"; the raw
\* value is published, else updated, else the sentinel; a sentinel,
\* malformed, offset-less or non-string raw value gives "Unknown"; an entry
\* missing published and updated, or title, or link, is still emitted.
C10_PubDate ==
    (pstage = "returned" /\ response.raises = "none" /\ ~response.bozo) =>
        \A i \in Processed(response.entries) :
            LET e == response.entries[i]
                raw == IF e.published # Absent THEN e.published
                       ELSE IF e.updated # Absent THEN e.updated
                       ELSE Str(Unknown)
            IN  /\ i <= Len(news_items)
                /\ \/ news_items[i].pub_date = Unknown
                   \/ IsCanonical(news_items[i].pub_date)
                /\ (\/ raw.ty # "rfc822"
                    \/ raw.z \notin Offsets
                    \/ raw.d > DaysIn(MonthNum(raw.b), raw.Y))
                       => news_items[i].pub_date = Unknown
                /\ e.title = Absent => news_items[i].title = NoTitle
                /\ e.link = Absent => news_items[i].url = NoURL

\* C4: whatever the sources do (all of them failing, all of them empty),
\* a run of main does not end in an exception: both writes and the summary
\* finish.
C4_NoHardFailure ==
    pc # "crashed"

RECURSIVE Concat(_)
Concat(ss) == IF ss = <<>> THEN <<>> ELSE Head(ss) \o Concat(Tail(ss))

\* What descriptor i is to contribute: nothing when its fetch or parse
\* fails, else one record per entry in document order.
Contribution(i) ==
    IF Failed(web[i]) THEN <<>>
    ELSE [k \in 1..Len(web[i].entries) |->
              NewsItem(RSS_FEEDS[i], web[i].entries[k], pads_year)]

\* C6: after the loop the accumulator is the concatenation, in descriptor
\* order, of the records of every descriptor, a failing descriptor
\* contributing none.
C6_Containment ==
    pc = "save_csv" =>
        all_news = Concat([i \in Feeds |-> Contribution(i)])

FirstIdx(data) ==
    {i \in 1..Len(data) : \A j \in 1..(i - 1) : Key(data[j]) # Key(data[i])}

\* The k-th smallest element of a set of numbers.
Nth(S, k) == CHOOSE i \in S : Cardinality({j \in S : j < i}) = k - 1

LastBatch ==
    SubSeq(db_news, Len(db_news) - total_db + 1, Len(db_news))

\* C5: both sinks keep exactly the records whose (title, url) has not
\* occurred earlier in the list, in input order; no two kept records share
\* (title, url); every dropped record has an earlier kept record with its
\* (title, url); deduplicating the kept list changes nothing; both sinks
\* keep the same records and report the same count.
C5_Dedup ==
    pc \in {"summary", "done"} =>
        LET first == FirstIdx(all_news)
        IN  /\ Len(csv_file) = Cardinality(first)
            /\ \A k \in 1..Len(csv_file) : csv_file[k] = all_news[Nth(first, k)]
            /\ \A k, m \in 1..Len(csv_file) :
                   Key(csv_file[k]) = Key(csv_file[m]) => k = m
            /\ \A i \in (1..Len(all_news)) \ first :
                   \E k \in 1..Len(csv_file) :
                       /\ Key(csv_file[k]) = Key(all_news[i])
                       /\ Nth(first, k) < i
            /\ drop_duplicates(csv_file) = csv_file
            /\ LastBatch = csv_file
            /\ total_csv = Len(csv_file) /\ total_db = total_csv

\* Two records with the same (title, url) and different descriptions were
\* collected and both sinks have written.
C5_Witness ==
    /\ pc = "done"
    /\ \E i, j \in 1..Len(all_news) :
           /\ i < j /\ Key(all_news[i]) = Key(all_news[j])
           /\ all_news[i].description # all_news[j].description
    /\ total_csv < Len(all_news) /\ total_csv > 1

Pairs(data) == {<<data[i].country, data[i].source>> : i \in 1..Len(data)}

RECURSIVE SumArticles(_)
SumArticles(rows) ==
    IF rows = <<>> THEN 0 ELSE Head(rows).total_articles + SumArticles(Tail(rows))

\* C7: the summary of a non-empty list has exactly one row per (country,
\* source) occurring in the full list; its total_articles is the number of
\* records of that pair, duplicates by (title, url) included; the totals
\* sum to the length of the list; a source without records has no row;
\* every row carries the same annotation.
C7_Summary ==
    pc = "done" =>
        /\ \A p \in Pairs(all_news) :
               /\ Cardinality({k \in 1..Len(summary) :
                      <<summary[k].country, summary[k].source>> = p}) = 1
               /\ \A k \in 1..Len(summary) :
                      <<summary[k].country, summary[k].source>> = p =>
                          summary[k].total_articles =
                              Cardinality({i \in 1..Len(all_news) :
                                  <<all_news[i].country, all_news[i].source>> = p})
        /\ \A k \in 1..Len(summary) :
               /\ <<summary[k].country, summary[k].source>> \in Pairs(all_news)
               /\ summary[k].historical_data = HistoricalData
        /\ SumArticles(summary) = Len(all_news)

\* The summary was made of a list holding two records with the same
\* (title, url), while another source contributed nothing.
C7_Witness ==
    /\ pc = "done"
    /\ \E i, j \in 1..Len(all_news) : i < j /\ Key(all_news[i]) = Key(all_news[j])
    /\ Len(summary) < NumFeeds
    /\ \E k \in 1..Len(summary) : summary[k].total_articles > 1

BatchSize == Cardinality({Key(all_news[i]) : i \in 1..Len(all_news)})

\* C8: with the same input in every run, the tabular file holds exactly
\* the n records of the run's deduplicated batch after each run, the table,
\* empty at first, holds k*n rows after the k-th run, and a store write
\* leaves the rows already stored unchanged.
C8_OverwriteVsAppend ==
    /\ [](pc = "save_sqlite" =>
             /\ Len(csv_file) = BatchSize
             /\ Len(db_news) = (runs - 1) * BatchSize)
    /\ [](pc \in {"summary", "done", "crashed"} =>
             /\ Len(csv_file) = BatchSize
             /\ Len(db_news) = runs * BatchSize)
    /\ [][/\ Len(db_news') >= Len(db_news)
          /\ \A i \in 1..Len(db_news) : db_news'[i] = db_news[i]]_vars

\* The second run has written a batch of two or more records to both sinks.
C8_Witness ==
    /\ runs = 2 /\ pc = "done"
    /\ Len(csv_file) >= 2 /\ Len(db_news) = 2 * Len(csv_file)
    /\ Len(csv_file) < Len(all_news)


====
